---- MODULE Spec2Model ----
(***************************************************************************)
(* Model of the virtual Ethernet learning switch XlTlmEthSoftSw            *)
(* (XlTlmEthSoftSw.cxx): the MAC cache, the blocking path b_transport()    *)
(* under dBTransportLock, the non-blocking path nb_transport_fw(), and the *)
(* cooperative (non-preemptive) scheduling of the calling threads.         *)
(*                                                                         *)
(* A caller thread runs until it suspends: in lock() when the mutex is in  *)
(* use, inside an egress b_transport() that consumes time, in wait(0) at   *)
(* the end of b_transport(), or between two calls.  assert() is enabled:   *)
(* a failed assertion aborts the whole process.                            *)
(*                                                                         *)
(* With it, the two Python extension modules of the station clients: the  *)
(* packet maps of VsiTcpUdpPythonGateway.cxx (rxFrameHandler() and         *)
(* recvEthernetPacket()) and the session and port configuration gateway    *)
(* objects of VsiCommonPythonApi.cxx.                                      *)
(***************************************************************************)
EXTENDS Integers, Sequences, FiniteSets, TLC

\* ------------------------------------------------------------ bounds
dNumPorts == 3
NumCallers == 3
\* The bytes a payload buffer is created with (payloads of one and of two
\* bytes: the buffer as created, and resized).
ETH_PACKET_MAX_BYTES == 1
\* The calls of connectToServer() in one behaviour.
MaxConnects == 2

Ports == 0 .. (dNumPorts - 1)
Callers == 1 .. NumCallers
NoCaller == 0

\* ------------------------------------------------------------ frames
\* AA:BB:CC:00:00:01, AA:BB:CC:00:00:02 and AA:BB:CC:00:01:00; the first
\* and the third have the same hash.
MacA == <<170, 187, 204, 0, 0, 1>>
MacB == <<170, 187, 204, 0, 0, 2>>
MacC == <<170, 187, 204, 0, 1, 0>>
Macs == {MacA, MacB, MacC}

\* A uint32_t is kept as its two 16 bit halves <<high, low>>.
TwoPow16 == 65536

\* (mutant: the carry into the high half is lost)
AddU32_NoCarry(x, n) == <<x[1], (x[2] + n) % TwoPow16>>

AddU32(x, n) ==
    LET low == x[2] + n
    IN  <<(x[1] + (low \div TwoPow16)) % TwoPow16, low % TwoPow16>>

\* The first four bytes laid out as one 32 bit integer (little-endian
\* host), then the last two bytes added, in uint32_t arithmetic.
hashMacAddr(macAddr) ==
    LET hash == <<macAddr[3] + macAddr[4] * 256, macAddr[1] + macAddr[2] * 256>>
    IN  AddU32(AddU32(hash, macAddr[5]), macAddr[6])

ResponseStatus == {"TLM_OK_RESPONSE", "TLM_INCOMPLETE_RESPONSE"}
SyncEnum == {"TLM_COMPLETED", "TLM_ACCEPTED", "TLM_UPDATED"}
Phases == {"BEGIN_REQ", "END_REQ"}
\* What an egress target does to the frame's response status: sets it to
\* OK, sets it to an error, or leaves it as it found it.
Outcomes == {"ok", "err", "keep"}

AfterOutcome(status, o) ==
    IF o = "ok" THEN "TLM_OK_RESPONSE"
    ELSE IF o = "err" THEN "TLM_INCOMPLETE_RESPONSE"
    ELSE status

VARIABLES
    dMacCache,            \* map<unsigned, unsigned>: hash -> rx port
    owner,                \* dBTransportLock: the owning caller, or NoCaller
    isMonitoringEnabled,
    ps,                   \* per caller: scheduling state of its thread
    call,                 \* per caller: the transport call it is in
    aborted,              \* an assert() failed: the process is gone
    passed,               \* per caller: the callers that were waiting for
                          \* the lock when it last released it and have not
                          \* acquired it since
    \* VsiTcpUdpPythonGateway.cxx
    receivedEthPacketMap, \* map: source port -> payload buffer
    isEthPacketReceived,  \* map: source port -> bool
    destPortNumberMap,    \* map: source port -> destination port
    numberOfBytesMap,     \* map: source port -> number of bytes
    recvResult,           \* what recvEthernetPacket() returned last
    arrived,              \* per source port: rxFrameHandler() has run for it
                          \* since the last recvEthernetPacket() of it
    \* VsiCommonPythonApi.cxx
    dSession,             \* RawcTlmApiThreaded *: NULL or an object
    vsiPortConfigGateway, \* VsiPortConfigGateway *: NULL or an object
    heap,                 \* per object: not yet allocated, live or deleted
    deletes,              \* per object: how often it was deleted
    misuse,               \* the calls made through a pointer to no live object
    pyModule,             \* the extension module: loaded, destructed, crashed
    apiRet                \* what the last call of the binding returned

switchVars == <<dMacCache, owner, isMonitoringEnabled, ps, call, aborted, passed>>
gatewayVars ==
    <<receivedEthPacketMap, isEthPacketReceived, destPortNumberMap,
      numberOfBytesMap, recvResult, arrived>>
sessionVars ==
    <<dSession, vsiPortConfigGateway, heap, deletes, misuse, pyModule, apiRet>>
\* The Python bindings, which the switch does not touch.
bindingVars == <<gatewayVars, sessionVars>>

vars == <<switchVars, gatewayVars, sessionVars>>

EmptyCache == [h \in {} |-> 0]

IdleCall ==
    [pc |-> "idle", kind |-> "none", rxPortId |-> 0, src |-> MacA, dst |-> MacA,
     cfg |-> FALSE, resp |-> "TLM_OK_RESPONSE", entryResp |-> "TLM_OK_RESPONSE",
     phase |-> "BEGIN_REQ", ret |-> "TLM_COMPLETED", found |-> FALSE,
     decision |-> "none", i |-> 0, log |-> <<>>]

\* VsiTcpUdpPythonGateway.cxx: the static maps start empty.  Source and
\* destination port numbers, payloads, and the size the payload buffer of
\* a source port is created with.
SrcPortNums == {0, 1}
DestPortNums == {7, 8}
Payloads == {<<1>>, <<2>>, <<1, 2>>}
EmptyMap == [k \in {} |-> 0]
NoResult == [kind |-> "none"]

GatewayInit ==
    /\ receivedEthPacketMap = EmptyMap
    /\ isEthPacketReceived = EmptyMap
    /\ destPortNumberMap = EmptyMap
    /\ numberOfBytesMap = EmptyMap
    /\ recvResult = NoResult
    /\ arrived = [p \in SrcPortNums |-> FALSE]

\* VsiCommonPythonApi.cxx: both pointers start NULL.  Every new yields an
\* object of its own.
NULL == 0
ObjIds == 1 .. (2 * MaxConnects)

SessionInit ==
    /\ dSession = NULL
    /\ vsiPortConfigGateway = NULL
    /\ heap = [o \in ObjIds |-> "unused"]
    /\ deletes = [o \in ObjIds |-> 0]
    /\ misuse = {}
    /\ pyModule = "loaded"
    /\ apiRet = "none"

\* The switch as constructed, with the calling threads in `threads'.
InitWith(threads) ==
    /\ GatewayInit /\ SessionInit
    /\ dMacCache = EmptyCache
    /\ owner = NoCaller
    /\ isMonitoringEnabled = FALSE
    /\ ps = [c \in Callers |-> IF c \in threads THEN "runnable" ELSE "absent"]
    /\ call = [c \in Callers |-> IdleCall]
    /\ aborted = FALSE
    /\ passed = [c \in Callers |-> {}]

\* One traffic source.
Init == InitWith({1})

\* One traffic source per caller thread.
InitConc == InitWith(Callers)

\* ------------------------------------------------------------ scheduler
Running(c) == ps[c] = "running" /\ ~aborted
NoneRunning == \A c \in Callers : ps[c] # "running"
NoneRunnable == \A c \in Callers : ps[c] # "runnable"
NoneDelta == \A c \in Callers : ps[c] # "waitDelta"

\* Evaluation phase: any runnable thread may be the next to run.
Dispatch(c) ==
    /\ ~aborted
    /\ NoneRunning
    /\ ps[c] = "runnable"
    /\ ps' = [ps EXCEPT ![c] = "running"]
    /\ UNCHANGED <<dMacCache, owner, isMonitoringEnabled, call, aborted, passed>>
    /\ UNCHANGED bindingVars

\* Delta cycle: the threads in wait(0, SC_PS) become runnable.
DeltaCycle ==
    /\ ~aborted
    /\ NoneRunning /\ NoneRunnable
    /\ ~NoneDelta
    /\ ps' = [c \in Callers |-> IF ps[c] = "waitDelta" THEN "runnable" ELSE ps[c]]
    /\ UNCHANGED <<dMacCache, owner, isMonitoringEnabled, call, aborted, passed>>
    /\ UNCHANGED bindingVars

\* Time advances to the next timed event: the threads waiting for it wake.
TimeAdvance(S) ==
    /\ ~aborted
    /\ NoneRunning /\ NoneRunnable /\ NoneDelta
    /\ S # {}
    /\ \A c \in S : ps[c] = "waitTimed"
    /\ ps' = [c \in Callers |-> IF c \in S THEN "runnable" ELSE ps[c]]
    /\ UNCHANGED <<dMacCache, owner, isMonitoringEnabled, call, aborted, passed>>
    /\ UNCHANGED bindingVars

\* A thread between two calls waits for some simulated time.
ThreadWait(c) ==
    /\ Running(c)
    /\ call[c].pc = "idle"
    /\ ps' = [ps EXCEPT ![c] = "waitTimed"]
    /\ UNCHANGED <<dMacCache, owner, isMonitoringEnabled, call, aborted, passed>>
    /\ UNCHANGED bindingVars

\* ------------------------------------------------------------ monitoring
setMonitoring(c, v) ==
    /\ Running(c)
    /\ call[c].pc = "idle"
    /\ isMonitoringEnabled # v
    /\ isMonitoringEnabled' = v
    /\ UNCHANGED <<dMacCache, owner, ps, call, aborted, passed>>
    /\ UNCHANGED bindingVars

\* convert.timeInNs(): the simulated time a monitoring block reads for
\* its banner.
TimeValues == {0, 1}
TimeRead == IF isMonitoringEnabled THEN TimeValues ELSE {0}

\* (mutant: the monitoring block overwrites what the call has done so far)
Monitored_Clobbers(log, ev, port, t) ==
    IF isMonitoringEnabled THEN <<<<ev, port, t>>>> ELSE log

\* The analysis port write of a monitoring block, when monitoring is on:
\* the port and the banner with the time in it.
Monitored(log, ev, port, t) ==
    IF isMonitoringEnabled THEN Append(log, <<ev, port, t>>) ELSE log

\* ------------------------------------------------------------ MAC cache
\* (mutant: the insertion drops the entries that were there)
Put_Forgets(cache, h, port) == [x \in {h} |-> port]

\* (mutant: the entry is bound to the port after the rx port)
Put_NextPort(cache, h, port) ==
    [x \in (DOMAIN cache) \cup {h} |-> IF x = h THEN port + 1 ELSE cache[x]]

Put(cache, h, port) ==
    [x \in (DOMAIN cache) \cup {h} |-> IF x = h THEN port ELSE cache[x]]

\* (mutant: a hash that is already cached fails the assertion)
BLearn_Strict(cache, rxPortId, srcAddr) ==
    LET macHash == hashMacAddr(srcAddr)
    IN  IF macHash \in DOMAIN cache
        THEN [found |-> TRUE, ok |-> FALSE, cache |-> cache]
        ELSE [found |-> FALSE, ok |-> TRUE, cache |-> Put(cache, macHash, rxPortId)]

\* (mutant: the new rx port silently replaces the cached one)
BLearn_Overwrite(cache, rxPortId, srcAddr) ==
    LET macHash == hashMacAddr(srcAddr)
    IN  [found |-> macHash \in DOMAIN cache, ok |-> TRUE,
         cache |-> Put(cache, macHash, rxPortId)]

\* b_transport(): cache the rx port of the source address; when the hash
\* is already there the port has to match (assert).
BLearn(cache, rxPortId, srcAddr) ==
    LET macHash == hashMacAddr(srcAddr)
    IN  IF macHash \in DOMAIN cache
        THEN [found |-> TRUE, ok |-> rxPortId = cache[macHash], cache |-> cache]
        ELSE [found |-> FALSE, ok |-> TRUE, cache |-> Put(cache, macHash, rxPortId)]

\* (mutant: the cache is not consulted for the destination)
BRoute_Flood(cache, destAddr) == [kind |-> "Flood", portId |-> 0]

\* b_transport(): the routing decision from the destination address.
BRoute(cache, destAddr) ==
    LET macHash == hashMacAddr(destAddr)
    IN  IF macHash \in DOMAIN cache
        THEN [kind |-> "Unicast", portId |-> cache[macHash]]
        ELSE [kind |-> "Flood", portId |-> 0]

\* (mutant: the flood loop without its test for the rx port)
BFloodNext_NoSkip(i, rxPortId) == IF i < dNumPorts THEN i ELSE dNumPorts

\* b_transport(): the flood loop's next port to send on, from index i on:
\* the first one that is not the rx port (dNumPorts: the loop is over).
BFloodNext(i, rxPortId) ==
    IF \E k \in Ports : k >= i /\ k # rxPortId
    THEN CHOOSE k \in Ports :
            /\ k >= i /\ k # rxPortId
            /\ \A m \in Ports : (m >= i /\ m # rxPortId) => k <= m
    ELSE dNumPorts

\* (mutant: the non-blocking flood sends on the rx port as well)
NbFloodNext_NoSkip(i, rxPortId) == IF i < dNumPorts THEN i ELSE dNumPorts

\* (mutant: the non-blocking learn replaces the cached rx port)
NbLearn_Overwrite(cache, rxPortId, srcAddr) ==
    LET macHash == hashMacAddr(srcAddr)
    IN  [found |-> macHash \in DOMAIN cache, ok |-> TRUE,
         cache |-> Put(cache, macHash, rxPortId)]

\* nb_transport_fw() holds the same learn / route / flood code a second time.
NbLearn(cache, rxPortId, srcAddr) ==
    LET macHash == hashMacAddr(srcAddr)
    IN  IF macHash \in DOMAIN cache
        THEN [found |-> TRUE, ok |-> rxPortId = cache[macHash], cache |-> cache]
        ELSE [found |-> FALSE, ok |-> TRUE, cache |-> Put(cache, macHash, rxPortId)]

\* (mutant: the cache is not consulted for the destination)
NbRoute_Flood(cache, destAddr) == [kind |-> "Flood", portId |-> 0]

NbRoute(cache, destAddr) ==
    LET macHash == hashMacAddr(destAddr)
    IN  IF macHash \in DOMAIN cache
        THEN [kind |-> "Unicast", portId |-> cache[macHash]]
        ELSE [kind |-> "Flood", portId |-> 0]

NbFloodNext(i, rxPortId) ==
    IF \E k \in Ports : k >= i /\ k # rxPortId
    THEN CHOOSE k \in Ports :
            /\ k >= i /\ k # rxPortId
            /\ \A m \in Ports : (m >= i /\ m # rxPortId) => k <= m
    ELSE dNumPorts

\* (mutant: the flood loop looks the destination up again for each port)
BLoopDecision_Relookup(decision, cache, destAddr) == BRoute(cache, destAddr).kind

\* b_transport(): the flood loop is the else branch of the lookup made
\* before it and does not read dMacCache: the decision it was entered with
\* stands, whatever the cache holds by now.
BLoopDecision(decision, cache, destAddr) == decision

\* (mutant: the flood loop without its break)
BFloodGoesOn_NoBreak(decision, resp, nxt) ==
    /\ decision = "Flood"
    /\ nxt < dNumPorts

\* b_transport(): after an egress call the flood loop goes on to port nxt
\* unless the response status is not OK (break) or the ports are used up.
BFloodGoesOn(decision, resp, nxt) ==
    /\ decision = "Flood"
    /\ resp = "TLM_OK_RESPONSE"
    /\ nxt < dNumPorts

\* (mutant: the non-blocking flood goes on whatever the port returned)
NbFloodGoesOn_AnyRet(decision, portRet, resp, nxt) ==
    /\ decision = "Flood"
    /\ resp = "TLM_OK_RESPONSE"
    /\ nxt < dNumPorts

\* (mutant: the non-blocking flood goes on whatever the response status)
NbFloodGoesOn_AnyResp(decision, portRet, resp, nxt) ==
    /\ decision = "Flood"
    /\ portRet = "TLM_COMPLETED"
    /\ nxt < dNumPorts

\* nb_transport_fw(): the same, and portRet has to be TLM_COMPLETED.
NbFloodGoesOn(decision, portRet, resp, nxt) ==
    /\ decision = "Flood"
    /\ portRet = "TLM_COMPLETED"
    /\ resp = "TLM_OK_RESPONSE"
    /\ nxt < dNumPorts

\* (mutant: the configuration extension is not looked at)
NbAfterEntry_NoShortCut(cfg) == "nb_learn"

\* (mutant: the phase is handed on as it came in)
NbPhaseIn_Keep(phase) == phase

\* nb_transport_fw(): phase = BEGIN_REQ before every egress call.
NbPhaseIn(phase) == "BEGIN_REQ"

\* (mutant: the non-blocking path goes straight to the destination lookup)
NbAfterEntry_SkipLearn(cfg) == IF cfg THEN "nb_ret" ELSE "nb_route"

\* nb_transport_fw(): a frame with the configuration extension returns
\* before anything else is done with it.
NbAfterEntry(cfg) == IF cfg THEN "nb_ret" ELSE "nb_learn"

\* ------------------------------------------------------------ dBTransportLock
\* sc_mutex: lock() waits on the free event while the mutex is in use;
\* unlock() clears the owner and notifies the free event at once.
\* (mutant: lock() that never finds the mutex in use)
MutexInUse_Never(own) == FALSE

MutexInUse(own) == own # NoCaller

Waiters == {w \in Callers : ps[w] = "waitFree"}

\* ------------------------------------------------------------ b_transport()
\* A thread calls b_transport().  The call's arguments are first read
\* once the lock is held, so they are drawn where the lock is taken.
StartB(c) ==
    /\ Running(c)
    /\ call[c].pc = "idle"
    /\ call' = [call EXCEPT ![c] = [IdleCall EXCEPT !.pc = "b_lock", !.kind = "b"]]
    /\ UNCHANGED <<dMacCache, owner, isMonitoringEnabled, ps, aborted, passed>>
    /\ UNCHANGED bindingVars

\* dBTransportLock.lock(): suspend while the mutex is in use (the test is
\* made again on every wake-up), else become the owner.
BLock(c, rxPortId, srcAddr, destAddr, resp) ==
    /\ Running(c)
    /\ call[c].pc = "b_lock"
    /\ IF MutexInUse(owner)
       THEN /\ ps' = [ps EXCEPT ![c] = "waitFree"]
            /\ UNCHANGED <<owner, call, passed>>
       ELSE /\ owner' = c
            /\ call' = [call EXCEPT ![c] =
                           [@ EXCEPT !.pc = "b_learn", !.rxPortId = rxPortId,
                                     !.src = srcAddr, !.dst = destAddr,
                                     !.resp = resp, !.entryResp = resp]]
            /\ passed' = [r \in Callers |->
                             IF r # c /\ c \in passed[r] THEN {} ELSE passed[r]]
            /\ UNCHANGED ps
    /\ UNCHANGED <<dMacCache, isMonitoringEnabled, aborted>>
    /\ UNCHANGED bindingVars

\* The RECEIVED monitoring block, then the source address is learned.
BLearnStep(c) ==
    /\ Running(c)
    /\ call[c].pc = "b_learn"
    /\ \E t \in TimeRead :
       LET l == BLearn(dMacCache, call[c].rxPortId, call[c].src)
           log1 == Append(Monitored(call[c].log, "mon_rx", call[c].rxPortId, t),
                          <<"learn", call[c].rxPortId>>)
       IN  IF l.ok
           THEN /\ dMacCache' = l.cache
                /\ call' = [call EXCEPT ![c].pc = "b_route", ![c].log = log1,
                                         ![c].found = l.found]
                /\ UNCHANGED aborted
           ELSE /\ aborted' = TRUE
                /\ call' = [call EXCEPT ![c].log = log1, ![c].found = l.found]
                /\ UNCHANGED dMacCache
    /\ UNCHANGED <<owner, isMonitoringEnabled, ps, passed>>
    /\ UNCHANGED bindingVars

\* The destination address is looked up: one port, or all but the rx one.
BRouteStep(c) ==
    /\ Running(c)
    /\ call[c].pc = "b_route"
    /\ LET r == BRoute(dMacCache, call[c].dst)
           first == IF r.kind = "Unicast" THEN r.portId
                    ELSE BFloodNext(0, call[c].rxPortId)
       IN  call' = [call EXCEPT
                       ![c].decision = r.kind,
                       ![c].i = first,
                       ![c].log = Append(@, <<"lookup">>),
                       ![c].pc = IF first < dNumPorts THEN "b_send" ELSE "b_unlock"]
    /\ UNCHANGED <<dMacCache, owner, isMonitoringEnabled, ps, aborted, passed>>
    /\ UNCHANGED bindingVars

\* (*txPorts[i])->b_transport( trans, delay ): the target may consume
\* simulated time, which suspends the calling thread inside the call.
BSend(c, suspends) ==
    /\ Running(c)
    /\ call[c].pc = "b_send"
    /\ \E t \in TimeRead :
       LET log1 == IF call[c].decision = "Flood"
                   THEN Monitored(call[c].log, "mon_tx", call[c].i, t)
                   ELSE call[c].log
       IN  call' = [call EXCEPT
                       ![c].pc = "b_in",
                       ![c].log = Append(log1, <<"tx", call[c].i, "pending", "none">>)]
    /\ ps' = [ps EXCEPT ![c] = IF suspends THEN "waitTimed" ELSE "running"]
    /\ UNCHANGED <<dMacCache, owner, isMonitoringEnabled, aborted, passed>>
    /\ UNCHANGED bindingVars

\* The egress b_transport() returns; a flood goes on to the next port
\* unless the response status is not OK now.
BSendReturn(c, o) ==
    /\ Running(c)
    /\ call[c].pc = "b_in"
    /\ LET resp1 == AfterOutcome(call[c].resp, o)
           n == Len(call[c].log)
           log1 == [call[c].log EXCEPT ![n] = <<"tx", call[c].i, o, "none">>]
           nxt == BFloodNext(call[c].i + 1, call[c].rxPortId)
           more == BFloodGoesOn(BLoopDecision(call[c].decision, dMacCache,
                                              call[c].dst),
                                resp1, nxt)
       IN  call' = [call EXCEPT
                       ![c].resp = resp1,
                       ![c].log = log1,
                       ![c].i = IF more THEN nxt ELSE @,
                       ![c].pc = IF more THEN "b_send" ELSE "b_unlock"]
    /\ UNCHANGED <<dMacCache, owner, isMonitoringEnabled, ps, aborted, passed>>
    /\ UNCHANGED bindingVars

\* (mutant: the call goes on without unlock())
BUnlock_Skipped(c) ==
    /\ Running(c)
    /\ call[c].pc = "b_unlock"
    /\ call' = [call EXCEPT ![c].pc = "b_yield"]
    /\ UNCHANGED <<dMacCache, owner, isMonitoringEnabled, ps, aborted, passed>>
    /\ UNCHANGED bindingVars

\* dBTransportLock.unlock(): the threads waiting in lock() become runnable.
BUnlock(c) ==
    /\ Running(c)
    /\ call[c].pc = "b_unlock"
    /\ owner' = NoCaller
    /\ ps' = [w \in Callers |-> IF ps[w] = "waitFree" THEN "runnable" ELSE ps[w]]
    /\ passed' = [passed EXCEPT ![c] = Waiters]
    /\ call' = [call EXCEPT ![c].pc = "b_yield"]
    /\ UNCHANGED <<dMacCache, isMonitoringEnabled, aborted>>
    /\ UNCHANGED bindingVars

\* wait(0, SC_PS): the thread resumes in the next delta cycle.
BYield(c) ==
    /\ Running(c)
    /\ call[c].pc = "b_yield"
    /\ ps' = [ps EXCEPT ![c] = "waitDelta"]
    /\ call' = [call EXCEPT ![c].pc = "b_ret"]
    /\ UNCHANGED <<dMacCache, owner, isMonitoringEnabled, aborted, passed>>
    /\ UNCHANGED bindingVars

\* b_transport() returns to the calling thread.
BReturn(c) ==
    /\ Running(c)
    /\ call[c].pc = "b_ret"
    /\ call' = [call EXCEPT ![c] = IdleCall]
    /\ UNCHANGED <<dMacCache, owner, isMonitoringEnabled, ps, aborted, passed>>
    /\ UNCHANGED bindingVars

\* ------------------------------------------------------------ nb_transport_fw()
StartNb(c, rxPortId, srcAddr, destAddr, cfg, resp, phase) ==
    /\ Running(c)
    /\ call[c].pc = "idle"
    /\ call' = [call EXCEPT ![c] =
                   [IdleCall EXCEPT !.pc = "nb_entry", !.kind = "nb",
                                    !.rxPortId = rxPortId, !.src = srcAddr,
                                    !.dst = destAddr, !.cfg = cfg,
                                    !.resp = resp, !.entryResp = resp,
                                    !.phase = phase]]
    /\ UNCHANGED <<dMacCache, owner, isMonitoringEnabled, ps, aborted, passed>>
    /\ UNCHANGED bindingVars

\* (mutant: the non-blocking path takes the lock of the blocking one)
NbEntry_Locks(c) ==
    /\ Running(c)
    /\ call[c].pc = "nb_entry"
    /\ IF MutexInUse(owner)
       THEN /\ ps' = [ps EXCEPT ![c] = "waitFree"]
            /\ UNCHANGED <<owner, call>>
       ELSE /\ owner' = c
            /\ call' = [call EXCEPT
                           ![c].ret = "TLM_COMPLETED",
                           ![c].resp = "TLM_OK_RESPONSE",
                           ![c].pc = NbAfterEntry(call[c].cfg)]
            /\ UNCHANGED ps
    /\ UNCHANGED <<dMacCache, isMonitoringEnabled, aborted, passed>>
    /\ UNCHANGED bindingVars

\* ret = TLM_COMPLETED, the response status is set to OK, and a frame with
\* the configuration extension is returned at once.
NbEntry(c) ==
    /\ Running(c)
    /\ call[c].pc = "nb_entry"
    /\ call' = [call EXCEPT
                   ![c].ret = "TLM_COMPLETED",
                   ![c].resp = "TLM_OK_RESPONSE",
                   ![c].pc = NbAfterEntry(call[c].cfg)]
    /\ UNCHANGED <<dMacCache, owner, isMonitoringEnabled, ps, aborted, passed>>
    /\ UNCHANGED bindingVars

NbLearnStep(c) ==
    /\ Running(c)
    /\ call[c].pc = "nb_learn"
    /\ \E t \in TimeRead :
       LET l == NbLearn(dMacCache, call[c].rxPortId, call[c].src)
           log1 == Append(Monitored(call[c].log, "mon_rx", call[c].rxPortId, t),
                          <<"learn", call[c].rxPortId>>)
       IN  IF l.ok
           THEN /\ dMacCache' = l.cache
                /\ call' = [call EXCEPT ![c].pc = "nb_route", ![c].log = log1,
                                         ![c].found = l.found]
                /\ UNCHANGED aborted
           ELSE /\ aborted' = TRUE
                /\ call' = [call EXCEPT ![c].log = log1, ![c].found = l.found]
                /\ UNCHANGED dMacCache
    /\ UNCHANGED <<owner, isMonitoringEnabled, ps, passed>>
    /\ UNCHANGED bindingVars

NbRouteStep(c) ==
    /\ Running(c)
    /\ call[c].pc = "nb_route"
    /\ LET r == NbRoute(dMacCache, call[c].dst)
           first == IF r.kind = "Unicast" THEN r.portId
                    ELSE NbFloodNext(0, call[c].rxPortId)
       IN  call' = [call EXCEPT
                       ![c].decision = r.kind,
                       ![c].i = first,
                       ![c].log = Append(@, <<"lookup">>),
                       ![c].pc = IF first < dNumPorts THEN "nb_send" ELSE "nb_ret"]
    /\ UNCHANGED <<dMacCache, owner, isMonitoringEnabled, ps, aborted, passed>>
    /\ UNCHANGED bindingVars

\* phase = BEGIN_REQ and the egress nb_transport_fw(), which returns
\* portRet and may have set the response status; it never suspends.  The
\* log entry holds the port, what the target did to the response status,
\* what it returned, and the phase it was handed.
NbSend(c, portRet, o) ==
    /\ Running(c)
    /\ call[c].pc = "nb_send"
    /\ \E t \in TimeRead :
       LET resp1 == AfterOutcome(call[c].resp, o)
           log1 == Append(Monitored(call[c].log, "mon_tx", call[c].i, t),
                          <<"tx", call[c].i, o, portRet,
                            NbPhaseIn(call[c].phase)>>)
           nxt == NbFloodNext(call[c].i + 1, call[c].rxPortId)
           more == NbFloodGoesOn(call[c].decision, portRet, resp1, nxt)
       IN  call' = [call EXCEPT
                       ![c].resp = resp1,
                       ![c].phase = IF portRet = "TLM_UPDATED" THEN "END_REQ"
                                    ELSE "BEGIN_REQ",
                       ![c].ret = IF call[c].decision = "Unicast"
                                     \/ portRet # "TLM_COMPLETED"
                                  THEN portRet ELSE @,
                       ![c].log = log1,
                       ![c].i = IF more THEN nxt ELSE @,
                       ![c].pc = IF more THEN "nb_send" ELSE "nb_ret"]
    /\ UNCHANGED <<dMacCache, owner, isMonitoringEnabled, ps, aborted, passed>>
    /\ UNCHANGED bindingVars

NbReturn(c) ==
    /\ Running(c)
    /\ call[c].pc = "nb_ret"
    /\ call' = [call EXCEPT ![c] = IdleCall]
    /\ UNCHANGED <<dMacCache, owner, isMonitoringEnabled, ps, aborted, passed>>
    /\ UNCHANGED bindingVars

Next ==
    \/ \E c \in Callers : Dispatch(c)
    \/ DeltaCycle
    \/ \E S \in SUBSET Callers : TimeAdvance(S)
    \/ \E c \in Callers : ThreadWait(c)
    \/ \E c \in Callers, v \in BOOLEAN : setMonitoring(c, v)
    \/ \E c \in Callers : StartB(c)
    \/ \E c \in Callers, p \in Ports, s \in Macs, d \in Macs,
          r \in ResponseStatus : BLock(c, p, s, d, r)
    \/ \E c \in Callers : BLearnStep(c)
    \/ \E c \in Callers : BRouteStep(c)
    \/ \E c \in Callers, w \in BOOLEAN : BSend(c, w)
    \/ \E c \in Callers, o \in Outcomes : BSendReturn(c, o)
    \/ \E c \in Callers : BUnlock(c)
    \/ \E c \in Callers : BYield(c)
    \/ \E c \in Callers : BReturn(c)
    \/ \E c \in Callers, p \in Ports, s \in Macs, d \in Macs, g \in BOOLEAN,
          r \in ResponseStatus, ph \in Phases : StartNb(c, p, s, d, g, r, ph)
    \/ \E c \in Callers : NbEntry(c)
    \/ \E c \in Callers : NbLearnStep(c)
    \/ \E c \in Callers : NbRouteStep(c)
    \/ \E c \in Callers, q \in SyncEnum, o \in Outcomes : NbSend(c, q, o)
    \/ \E c \in Callers : NbReturn(c)

Spec == Init /\ [][Next]_vars

\* Several traffic sources at once, each bound to the rx port of its own,
\* with well-behaved egress targets and frames between two stations.
ConcMacs == {MacA, MacB}
PortOf(c) == (c - 1) % dNumPorts

NextConc ==
    \/ \E c \in Callers : Dispatch(c)
    \/ DeltaCycle
    \/ \E S \in SUBSET Callers : TimeAdvance(S)
    \/ \E c \in Callers : ThreadWait(c)
    \/ \E c \in Callers : StartB(c)
    \/ \E c \in Callers, s \in ConcMacs, d \in ConcMacs :
          BLock(c, PortOf(c), s, d, "TLM_OK_RESPONSE")
    \/ \E c \in Callers : BLearnStep(c)
    \/ \E c \in Callers : BRouteStep(c)
    \/ \E c \in Callers, w \in BOOLEAN : BSend(c, w)
    \/ \E c \in Callers, o \in {"ok", "err"} : BSendReturn(c, o)
    \/ \E c \in Callers : BUnlock(c)
    \/ \E c \in Callers : BYield(c)
    \/ \E c \in Callers : BReturn(c)
    \/ \E c \in Callers, s \in ConcMacs, d \in ConcMacs :
          StartNb(c, PortOf(c), s, d, FALSE, "TLM_OK_RESPONSE", "BEGIN_REQ")
    \/ \E c \in Callers : NbEntry(c)
    \/ \E c \in Callers : NbLearnStep(c)
    \/ \E c \in Callers : NbRouteStep(c)
    \/ \E c \in Callers : NbSend(c, "TLM_COMPLETED", "ok")
    \/ \E c \in Callers : NbReturn(c)

SpecConc == InitConc /\ [][NextConc]_vars

\* Every calling thread in a loop of b_transport() calls, one call after
\* the other, on frames of its own station address AA:BB:CC:00:00:0c to
\* any of the stations.
StationMac(c) == <<170, 187, 204, 0, 0, c>>

NextLoop ==
    \/ \E c \in Callers : Dispatch(c)
    \/ DeltaCycle
    \/ \E S \in SUBSET Callers : TimeAdvance(S)
    \/ \E c \in Callers : StartB(c)
    \/ \E c \in Callers, d \in Callers :
          BLock(c, PortOf(c), StationMac(c), StationMac(d), "TLM_OK_RESPONSE")
    \/ \E c \in Callers : BLearnStep(c)
    \/ \E c \in Callers : BRouteStep(c)
    \/ \E c \in Callers, w \in BOOLEAN : BSend(c, w)
    \/ \E c \in Callers : BSendReturn(c, "ok")
    \/ \E c \in Callers : BUnlock(c)
    \/ \E c \in Callers : BYield(c)
    \/ \E c \in Callers : BReturn(c)

\* What the thread of caller c does when it is the one running.
ThreadStep(c) ==
    \/ StartB(c)
    \/ \E d \in Callers :
          BLock(c, PortOf(c), StationMac(c), StationMac(d), "TLM_OK_RESPONSE")
    \/ BLearnStep(c) \/ BRouteStep(c)
    \/ \E w \in BOOLEAN : BSend(c, w)
    \/ BSendReturn(c, "ok")
    \/ BUnlock(c) \/ BYield(c) \/ BReturn(c)

\* The scheduler runs every runnable thread in the evaluation phase it is
\* runnable in, a running thread goes on until it waits, the delta cycle
\* and the time advance come when nothing is left to run, and every timed
\* wait (an egress call that consumes time) ends.
FairLoop ==
    /\ \A c \in Callers : WF_vars(Dispatch(c))
    /\ \A c \in Callers : WF_vars(ThreadStep(c))
    /\ WF_vars(DeltaCycle)
    /\ \A c \in Callers :
          SF_vars(\E S \in SUBSET Callers : c \in S /\ TimeAdvance(S))

SpecLoop == InitConc /\ [][NextLoop]_vars /\ FairLoop

\* What the thread of caller c does in NextConc when it is the one running.
ConcStep(c) ==
    \/ ThreadWait(c) \/ StartB(c)
    \/ \E s \in ConcMacs, d \in ConcMacs :
          \/ BLock(c, PortOf(c), s, d, "TLM_OK_RESPONSE")
          \/ StartNb(c, PortOf(c), s, d, FALSE, "TLM_OK_RESPONSE", "BEGIN_REQ")
    \/ BLearnStep(c) \/ BRouteStep(c)
    \/ \E w \in BOOLEAN : BSend(c, w)
    \/ \E o \in {"ok", "err"} : BSendReturn(c, o)
    \/ BUnlock(c) \/ BYield(c) \/ BReturn(c)
    \/ NbEntry(c) \/ NbLearnStep(c) \/ NbRouteStep(c)
    \/ NbSend(c, "TLM_COMPLETED", "ok") \/ NbReturn(c)

\* The step of the running thread is one in which it waits.
Suspends(c) == ConcStep(c) /\ ps'[c] # "running"

\* Scheduling as in FairLoop, for threads that make calls of either path
\* as they please: a running thread goes on, and a thread that runs again
\* and again waits again and again (under cooperative scheduling nothing
\* else runs, and no egress call that consumes time returns, until it does).
FairConc ==
    /\ \A c \in Callers : WF_vars(Dispatch(c))
    /\ \A c \in Callers : WF_vars(ConcStep(c))
    /\ \A c \in Callers : SF_vars(Suspends(c))
    /\ WF_vars(DeltaCycle)
    /\ \A c \in Callers :
          SF_vars(\E S \in SUBSET Callers : c \in S /\ TimeAdvance(S))

\* Two calling threads, for what is checked of every behaviour to its end.
InitPair == InitWith({1, 2})

SpecPairFair == InitPair /\ [][NextConc]_vars /\ FairConc

\* The switch with one call, of either path, at its learn step, on a frame
\* whose source address has its bytes among the smallest and the largest;
\* the learn step takes the hash of it.
HashBytes == {0, 1, 255}
HashMacs == [1 .. 6 -> HashBytes]

InitHash ==
    /\ GatewayInit /\ SessionInit
    /\ dMacCache = EmptyCache
    /\ isMonitoringEnabled = FALSE
    /\ ps = [c \in Callers |-> IF c = 1 THEN "running" ELSE "absent"]
    /\ aborted = FALSE
    /\ passed = [c \in Callers |-> {}]
    /\ \E m \in HashMacs, blocking \in BOOLEAN :
          /\ owner = IF blocking THEN 1 ELSE NoCaller
          /\ call = [c \in Callers |->
                        IF c # 1 THEN IdleCall
                        ELSE [IdleCall EXCEPT
                                 !.kind = IF blocking THEN "b" ELSE "nb",
                                 !.pc = IF blocking THEN "b_learn" ELSE "nb_learn",
                                 !.src = m]]

NextHash == BLearnStep(1) \/ NbLearnStep(1)

SpecHash == InitHash /\ [][NextHash]_vars

\* ------------------------------------------------------------ VsiTcpUdpPythonGateway
\* std::map: operator[] on a key that is not there puts the default value
\* under it.
MapGet(m, k, default) == IF k \in DOMAIN m THEN m[k] ELSE default
MapSet(m, k, v) == [x \in (DOMAIN m) \cup {k} |-> IF x = k THEN v ELSE m[x]]
MapTouch(m, k, default) == MapSet(m, k, MapGet(m, k, default))

ZeroBuffer(n) == [k \in 1 .. n |-> 0]

\* The payload buffer of a source port for a payload of numBytes: created
\* with ETH_PACKET_MAX_BYTES zeros when it is not there, and made longer
\* when the payload is.
BufferFor(m, srcPortNum, numBytes) ==
    LET buf == MapGet(m, srcPortNum, ZeroBuffer(ETH_PACKET_MAX_BYTES))
    IN  IF numBytes > Len(buf) THEN buf \o ZeroBuffer(numBytes - Len(buf)) ELSE buf

\* memcpy( buffer.data(), payload, numBytes )
Memcpy(buf, payload, numBytes) ==
    [k \in 1 .. Len(buf) |-> IF k <= numBytes THEN payload[k] ELSE buf[k]]

\* rxFrameHandler(): the callback of the gateway for a received packet.
rxFrameHandler(payload, destPortNum, srcPortNum) ==
    LET numBytes == Len(payload)
    IN  /\ receivedEthPacketMap' =
              MapSet(receivedEthPacketMap, srcPortNum,
                     Memcpy(BufferFor(receivedEthPacketMap, srcPortNum, numBytes),
                            payload, numBytes))
        /\ destPortNumberMap' = MapSet(destPortNumberMap, srcPortNum, destPortNum)
        /\ numberOfBytesMap' = MapSet(numberOfBytesMap, srcPortNum, numBytes)
        /\ isEthPacketReceived' = MapSet(isEthPacketReceived, srcPortNum, TRUE)
        /\ arrived' = [arrived EXCEPT ![srcPortNum] = TRUE]
        /\ UNCHANGED <<recvResult, switchVars, sessionVars>>

\* Py_BuildValue( "HHy#K", ... ) of the branch taken when no packet is
\* flagged for the source port.
RecvElse(destPortNum, srcPortNum, buf, numBytes) ==
    [kind |-> "packet", destPortNum |-> destPortNum, srcPortNum |-> srcPortNum,
     payload |-> SubSeq(buf, 1, numBytes), numBytes |-> numBytes]

\* Py_BuildValue( "HHy#K", ... ) of the branch taken when a packet is
\* flagged.
RecvThen(destPortNum, srcPortNum, buf, numBytes) ==
    [kind |-> "packet", destPortNum |-> destPortNum, srcPortNum |-> srcPortNum,
     payload |-> SubSeq(buf, 1, numBytes), numBytes |-> numBytes]

\* recvEthernetPacket(): the Python call for the packet of a source port.
recvEthernetPacket(srcPortNum) ==
    LET received == MapTouch(receivedEthPacketMap, srcPortNum,
                             ZeroBuffer(ETH_PACKET_MAX_BYTES))
        flag == MapGet(isEthPacketReceived, srcPortNum, FALSE)
        dest == MapGet(destPortNumberMap, srcPortNum, 0)
        num == MapGet(numberOfBytesMap, srcPortNum, 0)
    IN  /\ receivedEthPacketMap' = received
        /\ destPortNumberMap' = MapTouch(destPortNumberMap, srcPortNum, 0)
        /\ numberOfBytesMap' = MapTouch(numberOfBytesMap, srcPortNum, 0)
        /\ IF flag /\ srcPortNum \in DOMAIN received
           THEN /\ isEthPacketReceived' = MapSet(isEthPacketReceived, srcPortNum, FALSE)
                /\ recvResult' = [call |-> RecvThen(dest, srcPortNum,
                                                    received[srcPortNum], num),
                                  kind |-> "returned",
                                  arrived |-> arrived[srcPortNum]]
           ELSE /\ isEthPacketReceived' = MapTouch(isEthPacketReceived, srcPortNum, FALSE)
                /\ recvResult' = [call |-> RecvElse(dest, srcPortNum,
                                                    received[srcPortNum], num),
                                  kind |-> "returned",
                                  arrived |-> arrived[srcPortNum]]
        /\ arrived' = [arrived EXCEPT ![srcPortNum] = FALSE]
        /\ UNCHANGED <<switchVars, sessionVars>>

NextGateway ==
    \/ \E payload \in Payloads, d \in DestPortNums, s \in SrcPortNums :
          rxFrameHandler(payload, d, s)
    \/ \E s \in SrcPortNums : recvEthernetPacket(s)

SpecGateway == InitWith({}) /\ [][NextGateway]_vars

\* ------------------------------------------------------------ VsiCommonPythonApi
\* new: an object of its own, not handed out before.
NewObj(h) == CHOOSE o \in ObjIds : h[o] = "unused" /\ \A u \in ObjIds : h[u] = "unused" => o <= u

\* delete p: nothing for a null pointer; else the object is freed, and
\* freed again if it was freed before.
Freed(h, p) == IF p = NULL THEN h ELSE [h EXCEPT ![p] = "deleted"]
Counted(d, p) == IF p = NULL THEN d ELSE [d EXCEPT ![p] = IF @ < 2 THEN @ + 1 ELSE @]
DoubleFree(h, p) == p # NULL /\ h[p] = "deleted"

\* delete vsiPortConfigGateway; delete dSession; as in terminate() and in
\* destruct().  Deleting an object a second time is undefined: the process
\* may crash there or get through (survive1, survive2).  Neither pointer
\* is set to NULL.
DeleteBoth(survive1, survive2) ==
    LET h1 == Freed(heap, vsiPortConfigGateway)
        d1 == Counted(deletes, vsiPortConfigGateway)
    IN  IF DoubleFree(heap, vsiPortConfigGateway) /\ ~survive1
        THEN [heap |-> h1, deletes |-> d1, crashed |-> TRUE]
        ELSE IF DoubleFree(h1, dSession) /\ ~survive2
        THEN [heap |-> h1, deletes |-> Counted(d1, dSession), crashed |-> TRUE]
        ELSE [heap |-> Freed(h1, dSession), deletes |-> Counted(d1, dSession),
              crashed |-> FALSE]

\* dSession->... : a call through the pointer as it is, with no test of it.
SessionUse ==
    IF dSession = NULL THEN {"session used before it was created"}
    ELSE IF heap[dSession] # "live" THEN {"session used after it was freed"}
    ELSE {}

\* connectToServer(), initializeConnection(): two new objects; what the
\* pointers held before is not deleted.
connectToServer ==
    /\ pyModule = "loaded"
    /\ Cardinality({o \in ObjIds : heap[o] = "unused"}) >= 2
    /\ LET s == NewObj(heap)
           h1 == [heap EXCEPT ![s] = "live"]
           g == NewObj(h1)
       IN  /\ dSession' = s
           /\ vsiPortConfigGateway' = g
           /\ heap' = [h1 EXCEPT ![g] = "live"]
    /\ apiRet' = "capsule"
    /\ UNCHANGED <<deletes, misuse, pyModule, switchVars, gatewayVars>>

\* advanceSimulation() and waitForReset(): 1 when the call through dSession
\* returned, 0 when it threw.  Through a null or dangling pointer the call
\* is undefined: it may do either, or crash the process.
SessionCall ==
    /\ pyModule = "loaded"
    /\ misuse' = misuse \cup SessionUse
    /\ \E r \in {"1", "0", "crash"} :
          /\ r = "crash" => SessionUse # {}
          /\ pyModule' = IF r = "crash" THEN "crashed" ELSE pyModule
          /\ apiRet' = IF r = "crash" THEN "none" ELSE r
    /\ UNCHANGED <<dSession, vsiPortConfigGateway, heap, deletes,
                   switchVars, gatewayVars>>

advanceSimulation == SessionCall

waitForReset == SessionCall

\* terminate(): both objects deleted, 1 returned.
terminate ==
    /\ pyModule = "loaded"
    /\ \E survive1 \in BOOLEAN, survive2 \in BOOLEAN :
          LET r == DeleteBoth(survive1, survive2)
          IN  /\ heap' = r.heap
              /\ deletes' = r.deletes
              /\ pyModule' = IF r.crashed THEN "crashed" ELSE pyModule
              /\ apiRet' = IF r.crashed THEN "none" ELSE "1"
    /\ UNCHANGED <<dSession, vsiPortConfigGateway, misuse, switchVars, gatewayVars>>

\* destruct(): the module is unloaded, both objects deleted.
destruct ==
    /\ pyModule = "loaded"
    /\ \E survive1 \in BOOLEAN, survive2 \in BOOLEAN :
          LET r == DeleteBoth(survive1, survive2)
          IN  /\ heap' = r.heap
              /\ deletes' = r.deletes
              /\ pyModule' = IF r.crashed THEN "crashed" ELSE "destructed"
    /\ apiRet' = "none"
    /\ UNCHANGED <<dSession, vsiPortConfigGateway, misuse, switchVars, gatewayVars>>

NextSession ==
    \/ connectToServer
    \/ advanceSimulation
    \/ waitForReset
    \/ terminate
    \/ destruct

SpecSession == InitWith({}) /\ [][NextSession]_vars

\* ============================================================ properties
\* What the properties below read off a call.
InRegion(c) == call[c].pc \in {"b_learn", "b_route", "b_send", "b_in", "b_unlock"}
AtLearn(c) == call[c].pc \in {"b_learn", "nb_learn"}
\* The call has made all its egress invocations.
Forwarded(c) == call[c].pc \in {"b_unlock", "b_yield", "b_ret", "nb_ret"}
\* The call's arguments are in call[c].
ArgsRead(c) == call[c].kind = "nb" \/ (call[c].kind = "b" /\ call[c].pc # "b_lock")

TxOf(c) == SelectSeq(call[c].log, LAMBDA e : e[1] = "tx")
EgressPorts(c) == [k \in 1 .. Len(TxOf(c)) |-> TxOf(c)[k][2]]
HasEvent(c, ev) == \E k \in 1 .. Len(call[c].log) : call[c].log[k][1] = ev

SrcHash(c) == hashMacAddr(call[c].src)
DstHash(c) == hashMacAddr(call[c].dst)
\* The source hash is cached for another port than the one the frame came in on.
Mismatch(c) ==
    /\ ArgsRead(c)
    /\ SrcHash(c) \in DOMAIN dMacCache
    /\ dMacCache[SrcHash(c)] # call[c].rxPortId

\* The ports other than rx in ascending order.
RECURSIVE Ascending(_, _)
Ascending(from, rx) ==
    IF from >= dNumPorts THEN <<>>
    ELSE IF from = rx THEN Ascending(from + 1, rx)
    ELSE <<from>> \o Ascending(from + 1, rx)

\* The response status after the k-th egress invocation of call c.
RECURSIVE StatusAfter(_, _)
StatusAfter(c, k) ==
    IF k = 0
    THEN (IF call[c].kind = "nb" THEN "TLM_OK_RESPONSE" ELSE call[c].entryResp)
    ELSE AfterOutcome(StatusAfter(c, k - 1), TxOf(c)[k][3])

\* ------------------------------------------------------------ C1
\* C1: at most one caller is between lock() and unlock(): a caller in that
\* region is the lock's owner, so no two callers are in it and at most one
\* egress b_transport() is in progress; and a caller waiting in lock() stays
\* there for as long as another caller owns the lock.
C1_Exclusion ==
    /\ \A c \in Callers : InRegion(c) => owner = c
    /\ \A c1, c2 \in Callers : (InRegion(c1) /\ InRegion(c2)) => c1 = c2
    /\ Cardinality({c \in Callers : call[c].pc = "b_in"}) <= 1

C1_BlockedStays ==
    \A c \in Callers :
        (call[c].pc = "b_lock" /\ owner # NoCaller /\ owner' # NoCaller)
            => call'[c].pc = "b_lock"

C1_MutualExclusion == [](C1_Exclusion) /\ [][C1_BlockedStays]_vars

\* A caller is suspended inside an egress call with the lock, and two others
\* are blocked in lock().
C1_Witness ==
    \E c \in Callers :
        /\ call[c].pc = "b_in" /\ ps[c] = "waitTimed" /\ owner = c
        /\ Cardinality({w \in Callers : w # c /\ call[w].pc = "b_lock"
                                        /\ ps[w] = "waitFree"}) >= 2

\* ------------------------------------------------------------ C2
\* C2 as claimed: a call whose source hash is cached for another port than
\* the one it came in on makes no egress invocation and does not get as far
\* as its return.
C2_Original ==
    \A c \in Callers :
        Mismatch(c) => /\ TxOf(c) = <<>>
                       /\ ~Forwarded(c)

\* C2 (amended): that holds of every call that reaches the learn step, which
\* is every call but a non-blocking one with the configuration extension.
\* Such a call's learn step fails the assertion: the process is aborted with
\* the cache as it was, the call where it was, and no egress port invoked.
\* A non-blocking call with the configuration extension returns
\* TLM_COMPLETED with the cache as it was and no egress port invoked.
C2_Rejects ==
    \A c \in Callers :
        (Running(c) /\ AtLearn(c) /\ Mismatch(c))
            => /\ aborted'
               /\ dMacCache' = dMacCache
               /\ call'[c].pc = call[c].pc
               /\ \A k \in 1 .. Len(call'[c].log) : call'[c].log[k][1] # "tx"

C2_NoForward ==
    \A c \in Callers :
        (Mismatch(c) /\ ~(call[c].kind = "nb" /\ call[c].cfg))
            => /\ TxOf(c) = <<>>
               /\ ~Forwarded(c)
               /\ HasEvent(c, "learn") => aborted

C2_PassThrough ==
    \A c \in Callers :
        (Mismatch(c) /\ call[c].kind = "nb" /\ call[c].cfg)
            => /\ TxOf(c) = <<>>
               /\ call[c].pc \in {"nb_entry", "nb_ret"}
               /\ ~aborted

C2_PassThroughStep ==
    \A c \in Callers :
        (Running(c) /\ call[c].kind = "nb" /\ call[c].cfg)
            => dMacCache' = dMacCache /\ ~aborted'

C2_InconsistentBinding ==
    /\ [](C2_NoForward /\ C2_PassThrough)
    /\ [][C2_Rejects /\ C2_PassThroughStep]_vars

\* The assertion has failed on a frame that came in on another port than the
\* one its source hash is cached for; no egress port was invoked.
C2_Witness ==
    \E c \in Callers :
        /\ aborted /\ Mismatch(c) /\ AtLearn(c)
        /\ HasEvent(c, "learn") /\ TxOf(c) = <<>>

\* ------------------------------------------------------------ C3
\* No egress port of call c set a non-OK response status or returned
\* another status than TLM_COMPLETED.
NoPortSignal(c) ==
    \A k \in 1 .. Len(TxOf(c)) :
        /\ TxOf(c)[k][3] # "err"
        /\ TxOf(c)[k][4] \in {"none", "TLM_COMPLETED"}

\* After every egress invocation of call c the response status was OK and
\* the port had returned TLM_COMPLETED.
AllOkAfter(c) ==
    \A k \in 1 .. Len(TxOf(c)) :
        /\ StatusAfter(c, k) = "TLM_OK_RESPONSE"
        /\ TxOf(c)[k][4] \in {"none", "TLM_COMPLETED"}

\* C3 as claimed: a flooded frame that came in on port i has been sent on
\* every other port, once each and in ascending order, provided no egress
\* port signalled a non-OK response or a non-Completed status, whatever
\* response status the frame was entered with.
C3_Original ==
    \A c \in Callers :
        (Forwarded(c) /\ call[c].decision = "Flood" /\ NoPortSignal(c))
            => EgressPorts(c) = Ascending(0, call[c].rxPortId)

\* C3 (amended): that holds provided the response status is OK after every
\* egress invocation (and every port returned TLM_COMPLETED).  On the
\* non-blocking path the status the frame was entered with is reset and does
\* not matter; the blocking path does not reset it, so a frame entered with
\* a non-OK status that the first port leaves as it is goes to that port
\* only.
C3_FloodAll ==
    \A c \in Callers :
        /\ (Forwarded(c) /\ call[c].decision = "Flood" /\ AllOkAfter(c))
              => EgressPorts(c) = Ascending(0, call[c].rxPortId)
        /\ (Forwarded(c) /\ call[c].decision = "Flood" /\ call[c].kind = "nb")
              => (NoPortSignal(c) <=> AllOkAfter(c))
        /\ (Forwarded(c) /\ call[c].decision = "Flood" /\ call[c].kind = "b"
               /\ call[c].entryResp # "TLM_OK_RESPONSE" /\ TxOf(c)[1][3] = "keep")
              => EgressPorts(c) = <<Ascending(0, call[c].rxPortId)[1]>>

\* A frame entered with a non-OK response status has been flooded to all the
\* other ports.
C3_Witness ==
    \E c \in Callers :
        /\ Forwarded(c) /\ call[c].decision = "Flood"
        /\ call[c].entryResp # "TLM_OK_RESPONSE"
        /\ Len(TxOf(c)) = dNumPorts - 1
        /\ EgressPorts(c) = Ascending(0, call[c].rxPortId)

\* ------------------------------------------------------------ C4
\* The destination hash is cached for another port than the one the frame
\* came in on.
DstBoundElsewhere(c) ==
    /\ ArgsRead(c)
    /\ DstHash(c) \in DOMAIN dMacCache
    /\ dMacCache[DstHash(c)] # call[c].rxPortId

\* C4 as claimed: a frame whose destination hash is cached for port j, come
\* in on another port, has caused exactly one egress invocation, on port j,
\* once the call is through, and its source hash is then cached for the rx
\* port.
C4_Original ==
    \A c \in Callers :
        (Forwarded(c) /\ DstBoundElsewhere(c))
            => /\ EgressPorts(c) = <<dMacCache[DstHash(c)]>>
               /\ SrcHash(c) \in DOMAIN dMacCache
               /\ dMacCache[SrcHash(c)] = call[c].rxPortId

\* C4 (amended): that holds of every frame the switch routes: one without
\* the configuration extension on the non-blocking path, and whose source
\* hash is not cached for another port (the call then fails, C2).  The learn
\* step adds the source binding, and nothing else, when the hash is absent;
\* the route step then decides for unicast to port j.
C4_UnicastOnly ==
    \A c \in Callers :
        /\ (Forwarded(c) /\ DstBoundElsewhere(c)
               /\ ~(call[c].kind = "nb" /\ call[c].cfg))
              => /\ EgressPorts(c) = <<dMacCache[DstHash(c)]>>
                 /\ call[c].decision = "Unicast"
                 /\ SrcHash(c) \in DOMAIN dMacCache
                 /\ dMacCache[SrcHash(c)] = call[c].rxPortId
        /\ (DstBoundElsewhere(c) /\ call[c].decision # "none")
              => /\ call[c].decision = "Unicast"
                 /\ \A k \in 1 .. Len(TxOf(c)) :
                        k = 1 /\ TxOf(c)[k][2] = dMacCache[DstHash(c)]

C4_LearnAdds ==
    \A c \in Callers :
        (Running(c) /\ AtLearn(c) /\ SrcHash(c) \notin DOMAIN dMacCache)
            => /\ DOMAIN dMacCache' = DOMAIN dMacCache \cup {SrcHash(c)}
               /\ dMacCache'[SrcHash(c)] = call[c].rxPortId
               /\ \A h \in DOMAIN dMacCache : dMacCache'[h] = dMacCache[h]
               /\ ~aborted'

C4_Unicast == [](C4_UnicastOnly) /\ [][C4_LearnAdds]_vars

\* A frame has been sent on the one port its destination hash is cached
\* for, and its source hash, absent before, is now cached for the rx port.
C4_Witness ==
    \E c \in Callers :
        /\ Forwarded(c) /\ DstBoundElsewhere(c)
        /\ EgressPorts(c) = <<dMacCache[DstHash(c)]>>
        /\ ~call[c].found
        /\ dMacCache[SrcHash(c)] = call[c].rxPortId

\* ------------------------------------------------------------ C5
\* In the log of call c the learn comes before the destination lookup, and
\* the lookup before every egress invocation.
LearnFirst(c) ==
    \A k \in 1 .. Len(call[c].log) :
        /\ call[c].log[k][1] = "lookup"
              => \E j \in 1 .. (k - 1) : call[c].log[j][1] = "learn"
        /\ call[c].log[k][1] = "tx"
              => \E j \in 1 .. (k - 1) : call[c].log[j][1] = "lookup"

\* C5 as claimed: every call learns before it looks the destination up and
\* before it invokes an egress port, and no call gets to its return without
\* having attempted the learn.
C5_Original ==
    \A c \in Callers :
        /\ LearnFirst(c)
        /\ (call[c].pc \in {"b_ret", "nb_ret"}) => HasEvent(c, "learn")

\* C5 (amended): that holds of every blocking call and of every
\* non-blocking call whose frame has no configuration extension; a
\* non-blocking call whose frame has it returns without learn, lookup or
\* egress invocation.
C5_LearnPrecedes ==
    \A c \in Callers :
        /\ LearnFirst(c)
        /\ (call[c].pc \in {"b_ret", "nb_ret"} /\ ~(call[c].kind = "nb" /\ call[c].cfg))
              => HasEvent(c, "learn")
        /\ (call[c].pc \in {"b_route", "b_send", "b_in", "b_unlock", "b_yield",
                            "nb_route", "nb_send"})
              => HasEvent(c, "learn")
        /\ (call[c].kind = "nb" /\ call[c].cfg)
              => /\ call[c].log = <<>>
                 /\ call[c].pc \in {"nb_entry", "nb_ret"}

\* A non-blocking call is at its return after learn, lookup and an egress
\* invocation.
C5_Witness ==
    \E c \in Callers :
        /\ call[c].pc = "nb_ret" /\ ~call[c].cfg
        /\ HasEvent(c, "learn") /\ HasEvent(c, "lookup") /\ HasEvent(c, "tx")

\* ------------------------------------------------------------ C6
\* The ports a flood of either path sends on, from index i on, when no
\* egress port stops it.
RECURSIVE BFloodList(_, _)
BFloodList(i, rxPortId) ==
    LET n == BFloodNext(i, rxPortId)
    IN  IF n >= dNumPorts THEN <<>> ELSE <<n>> \o BFloodList(n + 1, rxPortId)

RECURSIVE NbFloodList(_, _)
NbFloodList(i, rxPortId) ==
    LET n == NbFloodNext(i, rxPortId)
    IN  IF n >= dNumPorts THEN <<>> ELSE <<n>> \o NbFloodList(n + 1, rxPortId)

\* What b_transport() makes of a frame: the routing decision, the ports to
\* send on in order, and the cache it leaves.
BDecision(cache, rxPortId, srcAddr, destAddr) ==
    LET l == BLearn(cache, rxPortId, srcAddr)
        r == BRoute(l.cache, destAddr)
    IN  IF ~l.ok
        THEN [kind |-> "InconsistentBinding", targets |-> <<>>, cache |-> l.cache]
        ELSE [kind |-> r.kind,
              targets |-> IF r.kind = "Unicast" THEN <<r.portId>>
                          ELSE BFloodList(0, rxPortId),
              cache |-> l.cache]

\* The same for nb_transport_fw(), which looks at the configuration
\* extension first.
NbDecision(cache, rxPortId, srcAddr, destAddr, cfg) ==
    LET l == NbLearn(cache, rxPortId, srcAddr)
        r == NbRoute(l.cache, destAddr)
    IN  IF NbAfterEntry(cfg) # "nb_learn"
        THEN [kind |-> "PassThrough", targets |-> <<>>, cache |-> cache]
        ELSE IF ~l.ok
        THEN [kind |-> "InconsistentBinding", targets |-> <<>>, cache |-> l.cache]
        ELSE [kind |-> r.kind,
              targets |-> IF r.kind = "Unicast" THEN <<r.portId>>
                          ELSE NbFloodList(0, rxPortId),
              cache |-> l.cache]

\* C6 as claimed: whatever frame a call of either path was entered with,
\* on the cache as it is at entry the two paths come to the same decision,
\* the same ports in the same order, and the same cache.
C6_Original ==
    \A c \in Callers :
        (call[c].pc \in {"b_learn", "nb_entry"})
            => BDecision(dMacCache, call[c].rxPortId, call[c].src, call[c].dst)
               = NbDecision(dMacCache, call[c].rxPortId, call[c].src,
                            call[c].dst, call[c].cfg)

\* C6 (amended): that holds of every frame without the configuration
\* extension: on the cache a call of either path finds at its learn step
\* the two paths come to the same decision, ports and cache, and a call
\* that has made its egress invocations, with the response status OK after
\* each where it is a flood, has done what the other path comes to.  A
\* non-blocking call whose frame has the configuration extension makes no
\* routing decision and no egress invocation.
C6_SameDecision ==
    \A c \in Callers :
        /\ AtLearn(c)
              => BDecision(dMacCache, call[c].rxPortId, call[c].src, call[c].dst)
                 = NbDecision(dMacCache, call[c].rxPortId, call[c].src,
                              call[c].dst, FALSE)
        /\ (Forwarded(c) /\ ~(call[c].kind = "nb" /\ call[c].cfg)
               /\ (call[c].decision = "Unicast" \/ AllOkAfter(c)))
              => LET d == IF call[c].kind = "b"
                          THEN NbDecision(dMacCache, call[c].rxPortId,
                                          call[c].src, call[c].dst, FALSE)
                          ELSE BDecision(dMacCache, call[c].rxPortId,
                                         call[c].src, call[c].dst)
                 IN  /\ call[c].decision = d.kind
                     /\ EgressPorts(c) = d.targets
                     /\ dMacCache = d.cache
        /\ (call[c].kind = "nb" /\ call[c].cfg)
              => /\ call[c].decision = "none"
                 /\ TxOf(c) = <<>>
                 /\ NbDecision(dMacCache, call[c].rxPortId, call[c].src,
                               call[c].dst, TRUE).kind = "PassThrough"

\* A non-blocking call has flooded a frame with the response status left
\* OK, to the ports the blocking path comes to.
C6_Witness ==
    \E c \in Callers :
        /\ call[c].pc = "nb_ret" /\ call[c].decision = "Flood"
        /\ AllOkAfter(c)
        /\ Len(EgressPorts(c)) = dNumPorts - 1
        /\ EgressPorts(c) = BDecision(dMacCache, call[c].rxPortId,
                                      call[c].src, call[c].dst).targets

\* ------------------------------------------------------------ C7
\* A prefix relation on sequences.
IsPrefix(s, t) == Len(s) <= Len(t) /\ \A k \in 1 .. Len(s) : s[k] = t[k]

BFlood(c) == call[c].kind = "b" /\ call[c].decision = "Flood"

\* C7: a blocking flood sends on the ports other than rx in ascending
\* order, and makes no further egress invocation once the response status
\* is not OK after one: every invocation but the last left the status OK.
\* When the flood is over the frame has the status the last invocation left,
\* and once the call is past unlock() it does not own the lock.  No caller
\* stays suspended in lock() on a free lock, and a caller that runs lock()
\* on a free lock becomes its owner.
C7_Stops ==
    \A c \in Callers :
        BFlood(c) =>
            /\ IsPrefix(EgressPorts(c), Ascending(0, call[c].rxPortId))
            /\ \A k \in 1 .. (Len(TxOf(c)) - 1) :
                   StatusAfter(c, k) = "TLM_OK_RESPONSE"
            /\ Forwarded(c) => /\ call[c].resp = StatusAfter(c, Len(TxOf(c)))
                               /\ Len(TxOf(c)) >= 1
            /\ (Forwarded(c) /\ call[c].resp = "TLM_OK_RESPONSE")
                  => EgressPorts(c) = Ascending(0, call[c].rxPortId)
            /\ (call[c].pc \in {"b_yield", "b_ret"}) => owner # c

C7_NoLostWakeup ==
    \A c \in Callers : ps[c] = "waitFree" => (owner # NoCaller /\ owner # c)

C7_Acquires ==
    \A c \in Callers :
        (Running(c) /\ call[c].pc = "b_lock" /\ owner = NoCaller)
            => (owner' = c /\ call'[c].pc = "b_learn")

C7_EarlyStop == [](C7_Stops /\ C7_NoLostWakeup) /\ [][C7_Acquires]_vars

\* A blocking flood was stopped by its first egress port; the call is about
\* to return with the non-OK status and a later call owns the lock.
C7_Witness ==
    \E c \in Callers :
        /\ BFlood(c) /\ call[c].pc = "b_ret"
        /\ Len(TxOf(c)) = 1 /\ TxOf(c)[1][3] = "err"
        /\ call[c].resp # "TLM_OK_RESPONSE"
        /\ \E w \in Callers : w # c /\ owner = w /\ InRegion(w)

\* ------------------------------------------------------------ C8
\* C8: the lock is owned only by a caller between lock() and unlock(): its
\* owner is in that region, a caller elsewhere (before lock(), past
\* unlock(), back in its thread, or in nb_transport_fw()) does not own it,
\* and the lock is free whenever no caller is in the region.
C8_LockReleased ==
    /\ owner # NoCaller => (owner \in Callers /\ InRegion(owner))
    /\ \A c \in Callers : ~InRegion(c) => owner # c
    /\ (\A c \in Callers : call[c].kind # "b") => owner = NoCaller

\* A call whose flood was stopped early is past unlock(): the lock is free
\* and a caller that waited for it is runnable again.
C8_Witness ==
    \E c \in Callers :
        /\ BFlood(c) /\ call[c].pc = "b_yield"
        /\ call[c].resp # "TLM_OK_RESPONSE"
        /\ owner = NoCaller
        /\ \E w \in Callers : w # c /\ call[w].pc = "b_lock" /\ ps[w] = "runnable"

\* ------------------------------------------------------------ C9
\* C9 as claimed: a caller that released the lock while others waited for
\* it in lock() does not own the lock again before one of those has owned
\* it (passed[c]: the callers that waited when c released it last, emptied
\* when one of them becomes the owner).
C9_WaiterFirst ==
    \A c \in Callers : owner = c => passed[c] = {}

\* ------------------------------------------------------------ C10
\* The source hash of call c is cached for the port the frame came in on.
Relearn(c) ==
    /\ SrcHash(c) \in DOMAIN dMacCache
    /\ dMacCache[SrcHash(c)] = call[c].rxPortId

\* C10: the learn step of a call, of either path, whose source hash is
\* already cached for its rx port leaves the cache as it is and passes the
\* assertion, however many calls have learned it before; and a call that
\* found its source hash cached and went on has left it cached for its rx
\* port.
C10_LearnStep ==
    \A c \in Callers :
        (Running(c) /\ AtLearn(c) /\ Relearn(c))
            => /\ dMacCache' = dMacCache
               /\ ~aborted'
               /\ call'[c].pc \in {"b_route", "nb_route"}
               /\ call'[c].found

C10_Kept ==
    \A c \in Callers :
        (call[c].found /\ call[c].pc \notin {"b_learn", "nb_learn"})
            => (Relearn(c) /\ ~aborted)

C10_Idempotent == [](C10_Kept) /\ [][C10_LearnStep]_vars

\* A call has re-learned a cached source address and goes on to the lookup.
C10_Witness ==
    \E c \in Callers :
        /\ call[c].pc \in {"b_route", "nb_route"}
        /\ call[c].found /\ Relearn(c) /\ ~aborted

\* ------------------------------------------------------------ C11
\* C11: the cache only grows: no step removes an entry or changes the port
\* of one, and a step adds at most one entry, which is the source hash of a
\* call at its learn step, bound to the rx port of that call, and was not
\* cached before.
C11_Grows ==
    /\ \A h \in DOMAIN dMacCache :
           h \in DOMAIN dMacCache' /\ dMacCache'[h] = dMacCache[h]
    /\ (dMacCache' # dMacCache)
          => \E c \in Callers :
                /\ Running(c) /\ AtLearn(c)
                /\ SrcHash(c) \notin DOMAIN dMacCache
                /\ DOMAIN dMacCache' = (DOMAIN dMacCache) \cup {SrcHash(c)}
                /\ dMacCache'[SrcHash(c)] = call[c].rxPortId
                /\ ~call'[c].found

C11_AppendOnly == [][C11_Grows]_vars

\* A call has added a second entry to the cache.
C11_Witness ==
    \E c \in Callers :
        /\ call[c].pc \in {"b_route", "nb_route"} /\ ~call[c].found
        /\ Cardinality(DOMAIN dMacCache) = 2
        /\ dMacCache[SrcHash(c)] = call[c].rxPortId

\* ------------------------------------------------------------ C12
\* The call has learned its source address and gone on.
PastLearn(c) ==
    /\ HasEvent(c, "learn")
    /\ call[c].pc \in {"b_route", "b_send", "b_in", "b_unlock", "b_yield",
                       "b_ret", "nb_route", "nb_send", "nb_ret"}

\* The call's learn has failed the assertion.
LearnFailed(c) == AtLearn(c) /\ HasEvent(c, "learn")

\* C12: of two calls in progress that carry the same source hash on
\* different rx ports at most one gets past its learn; a call past its learn
\* finds its source hash cached for its own rx port whatever calls have run
\* since, blocking or not; and the learn of the other call fails the
\* assertion with the cache as it was.
C12_OneBinding ==
    /\ \A c1, c2 \in Callers :
           (/\ c1 # c2 /\ ArgsRead(c1) /\ ArgsRead(c2)
            /\ SrcHash(c1) = SrcHash(c2)
            /\ call[c1].rxPortId # call[c2].rxPortId)
               => ~(PastLearn(c1) /\ PastLearn(c2))
    /\ \A c \in Callers :
           PastLearn(c) => /\ SrcHash(c) \in DOMAIN dMacCache
                           /\ dMacCache[SrcHash(c)] = call[c].rxPortId
    /\ \A c \in Callers : LearnFailed(c) => (aborted /\ Mismatch(c))

C12_LearnStep ==
    \A c \in Callers :
        (Running(c) /\ AtLearn(c) /\ Mismatch(c))
            => /\ aborted' /\ dMacCache' = dMacCache
               /\ LearnFailed(c)'

C12_AtomicLearn == [](C12_OneBinding) /\ [][C12_LearnStep]_vars

\* A blocking call has bound its source hash and is suspended inside an
\* egress call with the lock; a non-blocking call with the same source hash
\* on another port has failed the assertion.
C12_Witness ==
    \E c1, c2 \in Callers :
        /\ call[c1].pc = "b_in" /\ ps[c1] = "waitTimed" /\ owner = c1
        /\ ~call[c1].found /\ PastLearn(c1)
        /\ call[c2].kind = "nb" /\ LearnFailed(c2)
        /\ SrcHash(c1) = SrcHash(c2)
        /\ call[c1].rxPortId # call[c2].rxPortId
        /\ dMacCache[SrcHash(c1)] = call[c1].rxPortId

\* ------------------------------------------------------------ C13
\* The call is a non-blocking one whose frame has the configuration
\* extension.
PassThrough(c) == call[c].kind = "nb" /\ call[c].cfg

\* C13: the entry step of such a call sets the response status to OK and
\* goes to the return with TLM_COMPLETED, and the call as a whole leaves the
\* cache, the lock and the phase argument as they were, invokes no egress
\* port and writes to no analysis port, whether monitoring is enabled or
\* not.
C13_EntryStep ==
    \A c \in Callers :
        (Running(c) /\ PassThrough(c) /\ call[c].pc = "nb_entry")
            => /\ call'[c].pc = "nb_ret"
               /\ call'[c].ret = "TLM_COMPLETED"
               /\ call'[c].resp = "TLM_OK_RESPONSE"
               /\ call'[c].phase = call[c].phase
               /\ call'[c].log = <<>>
               /\ dMacCache' = dMacCache /\ owner' = owner /\ ~aborted'

C13_ReturnStep ==
    \A c \in Callers :
        (Running(c) /\ PassThrough(c) /\ call[c].pc = "nb_ret")
            => /\ call'[c].pc = "idle"
               /\ dMacCache' = dMacCache /\ owner' = owner /\ ~aborted'

C13_AtReturn ==
    \A c \in Callers :
        (PassThrough(c) /\ call[c].pc = "nb_ret")
            => /\ call[c].ret = "TLM_COMPLETED"
               /\ call[c].resp = "TLM_OK_RESPONSE"
               /\ call[c].log = <<>>
               /\ call[c].decision = "none"

C13_ConfigPassThrough ==
    [](C13_AtReturn) /\ [][C13_EntryStep /\ C13_ReturnStep]_vars

\* With monitoring enabled, a frame with the configuration extension that
\* came in with a non-OK response status and the phase END_REQ is at the
\* return, its source hash not cached.
C13_Witness ==
    \E c \in Callers :
        /\ PassThrough(c) /\ call[c].pc = "nb_ret"
        /\ isMonitoringEnabled
        /\ call[c].entryResp # "TLM_OK_RESPONSE"
        /\ call[c].resp = "TLM_OK_RESPONSE"
        /\ call[c].phase = "END_REQ"
        /\ SrcHash(c) \notin DOMAIN dMacCache

\* ------------------------------------------------------------ C14
NbFlood(c) == call[c].kind = "nb" /\ call[c].decision = "Flood"

\* What the egress ports of call c returned, in order.
PortRets(c) == [k \in 1 .. Len(TxOf(c)) |-> TxOf(c)[k][4]]

\* C14: a non-blocking flood sends on the ports other than rx in ascending
\* order, each with the phase BEGIN_REQ; every port but the last one
\* invoked has returned TLM_COMPLETED; and the call returns TLM_COMPLETED
\* when all the ports invoked returned that, and else what the last port
\* invoked, the first not to return TLM_COMPLETED, has returned.
C14_NbFlood ==
    \A c \in Callers :
        NbFlood(c) =>
            /\ IsPrefix(EgressPorts(c), Ascending(0, call[c].rxPortId))
            /\ \A k \in 1 .. Len(TxOf(c)) : TxOf(c)[k][5] = "BEGIN_REQ"
            /\ \A k \in 1 .. (Len(TxOf(c)) - 1) : PortRets(c)[k] = "TLM_COMPLETED"
            /\ (call[c].pc = "nb_ret") =>
                  /\ Len(TxOf(c)) >= 1
                  /\ call[c].ret = PortRets(c)[Len(TxOf(c))]
                  /\ (\A k \in 1 .. Len(TxOf(c)) : PortRets(c)[k] = "TLM_COMPLETED")
                        <=> call[c].ret = "TLM_COMPLETED"
                  /\ (PortRets(c)[Len(TxOf(c))] = "TLM_COMPLETED"
                      /\ call[c].resp = "TLM_OK_RESPONSE")
                        => EgressPorts(c) = Ascending(0, call[c].rxPortId)

\* A non-blocking flood that came in with the phase END_REQ was stopped by
\* its second port, which returned TLM_ACCEPTED.
C14_Witness ==
    \E c \in Callers :
        /\ NbFlood(c) /\ call[c].pc = "nb_ret"
        /\ PortRets(c) = <<"TLM_COMPLETED", "TLM_ACCEPTED">>
        /\ call[c].ret = "TLM_ACCEPTED"
        /\ call[c].resp = "TLM_OK_RESPONSE"

\* ------------------------------------------------------------ C15
NbUnicast(c) == call[c].kind = "nb" /\ call[c].decision = "Unicast"

\* C15: a non-blocking unicast at its return has made one egress call, on
\* the port its destination hash is cached for, with the phase BEGIN_REQ,
\* and returns what that port returned, whatever the response status is
\* now; before the egress call it has made none.
C15_NbUnicast ==
    \A c \in Callers :
        NbUnicast(c) =>
            /\ DstHash(c) \in DOMAIN dMacCache
            /\ (call[c].pc = "nb_send") => TxOf(c) = <<>>
            /\ (call[c].pc = "nb_ret") =>
                  /\ Len(TxOf(c)) = 1
                  /\ TxOf(c)[1][2] = dMacCache[DstHash(c)]
                  /\ TxOf(c)[1][5] = "BEGIN_REQ"
                  /\ call[c].ret = TxOf(c)[1][4]
                  /\ call[c].resp = AfterOutcome("TLM_OK_RESPONSE", TxOf(c)[1][3])

\* A non-blocking unicast that came in with the phase END_REQ returns
\* TLM_UPDATED from its port, the response status not OK.
C15_Witness ==
    \E c \in Callers :
        /\ NbUnicast(c) /\ call[c].pc = "nb_ret"
        /\ call[c].ret = "TLM_UPDATED"
        /\ call[c].resp # "TLM_OK_RESPONSE"
        /\ TxOf(c)[1][2] # call[c].rxPortId

\* ------------------------------------------------------------ C16
InNb(c) == call[c].kind = "nb"

\* C16: a thread inside nb_transport_fw() is running, never suspended, and
\* is not the lock's owner; unless the process is aborted it has a next
\* step to take whoever owns the lock; and no step that enters, continues
\* or leaves a non-blocking call changes the lock's owner.
C16_Runs ==
    \A c \in Callers :
        InNb(c) =>
            /\ ps[c] = "running"
            /\ owner # c
            /\ ~aborted =>
                  ENABLED (\/ NbEntry(c) \/ NbLearnStep(c) \/ NbRouteStep(c)
                           \/ NbSend(c, "TLM_COMPLETED", "ok") \/ NbReturn(c))

C16_Step ==
    \A c \in Callers :
        (InNb(c) \/ InNb(c)')
            => /\ owner' = owner
               /\ ps'[c] = "running"
               /\ \A w \in Callers : w # c => (ps'[w] = ps[w] /\ call'[w] = call[w])

C16_NoLock == [](C16_Runs) /\ [][C16_Step]_vars

\* A non-blocking call has made its egress calls and is at its return
\* while a blocking call, suspended inside an egress call, owns the lock.
C16_Witness ==
    \E c, w \in Callers :
        /\ InNb(c) /\ call[c].pc = "nb_ret" /\ Len(TxOf(c)) >= 1
        /\ w # c /\ owner = w
        /\ call[w].pc = "b_in" /\ ps[w] = "waitTimed"

\* ------------------------------------------------------------ C17
\* The analysis port writes of a call, and the rest of what it did.
MonEvents(log) == SelectSeq(log, LAMBDA e : e[1] \in {"mon_rx", "mon_tx"})

\* What the call's frame and the cache make of it, by the path it is on.
DecisionOf(c) ==
    IF call[c].kind = "b"
    THEN BDecision(dMacCache, call[c].rxPortId, call[c].src, call[c].dst)
    ELSE NbDecision(dMacCache, call[c].rxPortId, call[c].src, call[c].dst,
                    call[c].cfg)

\* C17: what a call has done when its egress calls are made is a function
\* of the cache, the frame, its rx port and what the egress targets
\* answered, in which neither isMonitoringEnabled nor a time read for a
\* banner occurs: the routing decision, the cache, the egress ports in
\* order up to the first whose answer stops the flood, the response status
\* and the returned status.  And a step taken while monitoring is disabled
\* writes to no analysis port.
C17_Outcome ==
    \A c \in Callers :
        (Forwarded(c) /\ ~PassThrough(c)) =>
            LET d == DecisionOf(c)
                n == Len(TxOf(c))
            IN  /\ call[c].decision = d.kind
                /\ dMacCache = d.cache
                /\ IsPrefix(EgressPorts(c), d.targets)
                /\ n >= 1
                /\ \A k \in 1 .. (n - 1) :
                       /\ StatusAfter(c, k) = "TLM_OK_RESPONSE"
                       /\ PortRets(c)[k] \in {"none", "TLM_COMPLETED"}
                /\ (n < Len(d.targets))
                      => \/ StatusAfter(c, n) # "TLM_OK_RESPONSE"
                         \/ PortRets(c)[n] \notin {"none", "TLM_COMPLETED"}
                /\ call[c].resp = StatusAfter(c, n)
                /\ call[c].kind = "nb" => call[c].ret = PortRets(c)[n]

C17_SilentStep ==
    (~isMonitoringEnabled)
        => \A c \in Callers :
               Len(MonEvents(call'[c].log)) <= Len(MonEvents(call[c].log))

C17_Independent == [](C17_Outcome) /\ [][C17_SilentStep]_vars

\* With monitoring enabled a blocking flood has gone to all the other
\* ports, its three monitoring blocks having read different times.
C17_Witness ==
    \E c \in Callers :
        /\ isMonitoringEnabled
        /\ BFlood(c) /\ call[c].pc = "b_unlock"
        /\ EgressPorts(c) = Ascending(0, call[c].rxPortId)
        /\ Len(MonEvents(call[c].log)) = dNumPorts
        /\ MonEvents(call[c].log)[1][3] # MonEvents(call[c].log)[dNumPorts][3]

\* ------------------------------------------------------------ C18
\* A uint32_t, kept as its halves, read as a two's complement number.
Signed(h) ==
    IF h[1] >= 32768 THEN (h[1] - TwoPow16) * TwoPow16 + h[2]
    ELSE h[1] * TwoPow16 + h[2]

\* The first four bytes as one 32 bit integer plus the fifth and the sixth
\* byte, the sum taken modulo 2^32 and read as a two's complement number:
\* with the fourth byte counted as negative from 128 on, the plain sum is
\* that number.
SignedSum(m) ==
    (IF m[4] >= 128 THEN m[4] - 256 ELSE m[4]) * 16777216
        + m[3] * 65536 + m[2] * 256 + m[1] + m[5] + m[6]

\* C18: the hash of an address is the first four bytes as one 32 bit
\* integer plus the two last bytes modulo 2^32, a 32 bit value; the learn
\* step caches the rx port under that value and nothing else, and the hash
\* taken of the same address again is the cached one.
C18_Hash ==
    \A c \in Callers :
        LET h == hashMacAddr(call[c].src)
        IN  /\ h[1] \in 0 .. (TwoPow16 - 1) /\ h[2] \in 0 .. (TwoPow16 - 1)
            /\ Signed(h) = SignedSum(call[c].src)
            /\ (call[c].pc \in {"b_route", "nb_route"})
                  => /\ DOMAIN dMacCache = {h}
                     /\ Relearn(c)

\* FF:FF:FF:FF:FF:FF has been learned under the hash 0x000001FD: the sum
\* has wrapped.
C18_Witness ==
    \E c \in Callers :
        /\ call[c].pc \in {"b_route", "nb_route"}
        /\ call[c].src = <<255, 255, 255, 255, 255, 255>>
        /\ DOMAIN dMacCache = {<<0, 509>>}

\* ------------------------------------------------------------ C19
\* Two different addresses with the same hash.
Collide(m1, m2) == m1 # m2 /\ hashMacAddr(m1) = hashMacAddr(m2)

\* C19: AA:BB:CC:00:00:01 and AA:BB:CC:00:01:00 have the same hash, and of
\* two addresses with the same hash the learn and the lookup of either path
\* make the same on every port and every cache.  So a frame whose
\* destination hash is cached, be it for an address that was never a
\* source, is sent on the cached port and no other: one whose source
\* address has just been learned first and whose destination is another
\* address with the same hash goes back out on its own rx port.  And a
\* frame whose source hash is cached for another port, by whichever
\* address, does not get past the learn: the assertion fails.
C19_SameToSwitch ==
    \A m1, m2 \in Macs :
        Collide(m1, m2) =>
            /\ BRoute(dMacCache, m1) = BRoute(dMacCache, m2)
            /\ NbRoute(dMacCache, m1) = NbRoute(dMacCache, m2)
            /\ \A p \in Ports :
                   /\ BLearn(dMacCache, p, m1) = BLearn(dMacCache, p, m2)
                   /\ NbLearn(dMacCache, p, m1) = NbLearn(dMacCache, p, m2)

C19_Misroutes ==
    \A c \in Callers :
        (Forwarded(c) /\ ~PassThrough(c)) =>
            /\ (\E m \in Macs : Collide(m, call[c].dst)
                                /\ hashMacAddr(m) \in DOMAIN dMacCache)
                  => /\ call[c].decision = "Unicast"
                     /\ EgressPorts(c) = <<dMacCache[DstHash(c)]>>
            /\ (Collide(call[c].src, call[c].dst) /\ ~call[c].found)
                  => EgressPorts(c) = <<call[c].rxPortId>>

C19_Rejects ==
    \A c \in Callers :
        (Mismatch(c) /\ ~PassThrough(c))
            => /\ ~PastLearn(c) /\ TxOf(c) = <<>>
               /\ LearnFailed(c) <=> (aborted /\ AtLearn(c))

C19_Collision ==
    /\ Collide(MacA, MacC)
    /\ C19_SameToSwitch /\ C19_Misroutes /\ C19_Rejects

\* A blocking call has learned a source address first seen and unicast the
\* frame, whose destination is another address with the same hash and was
\* never a source, to the port it came in on.
C19_Witness ==
    \E c \in Callers :
        /\ call[c].kind = "b" /\ Forwarded(c)
        /\ Collide(call[c].src, call[c].dst) /\ ~call[c].found
        /\ call[c].decision = "Unicast"
        /\ EgressPorts(c) = <<call[c].rxPortId>>

\* ------------------------------------------------------------ C20
\* The steps of b_transport() in their order: lock() (where the caller may
\* wait), learn (where the assertion may fail), lookup, egress calls and
\* their returns, unlock(), wait(0, SC_PS), return.
BOrder ==
    {<<"idle", "b_lock">>, <<"b_lock", "b_learn">>, <<"b_learn", "b_route">>,
     <<"b_route", "b_send">>, <<"b_route", "b_unlock">>, <<"b_send", "b_in">>,
     <<"b_in", "b_send">>, <<"b_in", "b_unlock">>, <<"b_unlock", "b_yield">>,
     <<"b_yield", "b_ret">>, <<"b_ret", "idle">>}

InB(c) == call[c].kind = "b"

\* C20: a blocking call goes through its steps in that order; what it does
\* to the frame (learn, lookup, an egress call or the return of one) it
\* does as the lock's owner and stays the owner; its thread goes into
\* wait(0, SC_PS) only from the step after unlock(), not owning the lock,
\* and is at no later step than the return while it waits there.
C20_Order ==
    \A c \in Callers :
        ((InB(c) \/ InB(c)') /\ call'[c].pc # call[c].pc)
            => <<call[c].pc, call'[c].pc>> \in BOrder

C20_UnderLock ==
    \A c \in Callers :
        (InB(c) /\ InB(c)' /\ call'[c].log # call[c].log)
            => (owner = c /\ owner' = c)

C20_YieldStep ==
    \A c \in Callers :
        (InB(c) /\ ps[c] # "waitDelta" /\ ps'[c] = "waitDelta")
            => /\ call[c].pc = "b_yield" /\ call'[c].pc = "b_ret"
               /\ owner # c /\ owner' # c

C20_Where ==
    \A c \in Callers :
        /\ (InB(c) /\ call[c].log # <<>> /\ ~Forwarded(c)) => owner = c
        /\ (call[c].pc = "b_unlock") => owner = c
        /\ (InB(c) /\ Forwarded(c))
              => (HasEvent(c, "learn") /\ HasEvent(c, "lookup") /\ LearnFirst(c))
        /\ ps[c] = "waitDelta" => (call[c].pc = "b_ret" /\ owner # c)

C20_Phases ==
    [](C20_Where) /\ [][C20_Order /\ C20_UnderLock /\ C20_YieldStep]_vars

\* A blocking call that has unicast its frame is in wait(0, SC_PS) while
\* the next caller has the lock and is at its learn.
C20_Witness ==
    \E c, w \in Callers :
        /\ InB(c) /\ call[c].pc = "b_ret" /\ ps[c] = "waitDelta"
        /\ call[c].decision = "Unicast" /\ Len(TxOf(c)) = 1
        /\ w # c /\ owner = w /\ call[w].pc = "b_learn" /\ call[w].log = <<>>

\* ------------------------------------------------------------ C21
\* C21 as claimed: recvEthernetPacket() returns the bytes of a packet
\* only when rxFrameHandler() has run for the source port since the last
\* recvEthernetPacket() of it; else it returns no bytes.
C21_NoStalePacket ==
    (recvResult.kind = "returned" /\ ~recvResult.arrived)
        => recvResult.call.numBytes = 0

\* ------------------------------------------------------------ C22
\* The destination hash is cached for the port the frame came in on.
DstBoundHere(c) ==
    /\ ArgsRead(c)
    /\ DstHash(c) \in DOMAIN dMacCache
    /\ dMacCache[DstHash(c)] = call[c].rxPortId

BFlooding(c) == BFlood(c) /\ call[c].pc \in {"b_send", "b_in", "b_unlock"}

\* C23: the decision of a blocking call is made at the lookup and stands.
\* A flood under way stays a flood at every step, and no step of another
\* thread (the learn of a non-blocking call that caches the flooded
\* frame's destination hash is one) changes the call: while it is
\* suspended in an egress call its ports sent on and its next port are
\* as they were.  So the flood has sent on the ports other than rx in
\* ascending order, on all of them when every egress call left the status
\* OK, whether the destination hash is cached by now or not.
C23_State ==
    \A c \in Callers :
        BFlooding(c) =>
            /\ IsPrefix(EgressPorts(c), Ascending(0, call[c].rxPortId))
            /\ \A k \in 1 .. (Len(TxOf(c)) - 1) : StatusAfter(c, k) = "TLM_OK_RESPONSE"
            /\ (call[c].pc = "b_unlock" /\ AllOkAfter(c))
                  => EgressPorts(c) = Ascending(0, call[c].rxPortId)
            /\ (call[c].pc = "b_send")
                  => Append(EgressPorts(c), call[c].i)
                         = SubSeq(Ascending(0, call[c].rxPortId), 1, Len(TxOf(c)) + 1)

C23_Step ==
    \A c \in Callers :
        (BFlooding(c) /\ call[c].pc # "b_unlock") =>
            /\ call'[c].decision = "Flood"
            /\ ~Running(c) => call'[c] = call[c]

C23_DecisionFixed == [](C23_State) /\ [][C23_Step]_vars

\* A blocking flood still owning the lock has sent on both other ports,
\* though the destination hash of its frame, not cached at its lookup, is
\* cached by now: a non-blocking call has learned it while the flood was
\* suspended in an egress call (a blocking call would have needed the lock).
C23_Witness ==
    \E c \in Callers :
        /\ BFlood(c) /\ call[c].pc = "b_unlock" /\ owner = c
        /\ DstHash(c) \in DOMAIN dMacCache
        /\ EgressPorts(c) = Ascending(0, call[c].rxPortId)
        /\ Len(EgressPorts(c)) = dNumPorts - 1

\* ------------------------------------------------------------ C24
\* C24: in a non-blocking flood an egress port that returns TLM_COMPLETED
\* and leaves the response status not OK is the last one invoked, and the
\* call returns TLM_COMPLETED.  A flood that returns TLM_COMPLETED with the
\* status OK has invoked every port but rx; and no other outcome tells
\* that: at every port but the last, each other pair of return value and
\* response status is what the call can end with there, ports left out.
C24_StopsOnStatus ==
    \A c \in Callers :
        NbFlood(c) =>
            \A k \in 1 .. Len(TxOf(c)) :
                (PortRets(c)[k] = "TLM_COMPLETED"
                 /\ StatusAfter(c, k) # "TLM_OK_RESPONSE")
                    => /\ k = Len(TxOf(c))
                       /\ call[c].pc = "nb_ret"
                       /\ call[c].ret = "TLM_COMPLETED"
                       /\ call[c].resp = StatusAfter(c, k)

C24_CompletedOk ==
    \A c \in Callers :
        (NbFlood(c) /\ call[c].pc = "nb_ret"
         /\ call[c].ret = "TLM_COMPLETED" /\ call[c].resp = "TLM_OK_RESPONSE")
            => EgressPorts(c) = Ascending(0, call[c].rxPortId)

C24_NoOther ==
    \A c \in Callers :
        (NbFlood(c) /\ call[c].pc = "nb_send"
         /\ NbFloodNext(call[c].i + 1, call[c].rxPortId) < dNumPorts)
            => \A q \in SyncEnum, r \in ResponseStatus :
                   ~(q = "TLM_COMPLETED" /\ r = "TLM_OK_RESPONSE")
                      => \E o \in Outcomes :
                            ENABLED (/\ NbSend(c, q, o)
                                     /\ call'[c].pc = "nb_ret"
                                     /\ call'[c].ret = q
                                     /\ call'[c].resp = r
                                     /\ call'[c].i = call[c].i)

C24_StatusBreak == C24_StopsOnStatus /\ C24_CompletedOk /\ C24_NoOther

\* A non-blocking flood is over after its first port, which returned
\* TLM_COMPLETED and left the response status not OK: the call returns
\* TLM_COMPLETED and has left a port out.
C24_Witness ==
    \E c \in Callers :
        /\ NbFlood(c) /\ call[c].pc = "nb_ret"
        /\ PortRets(c) = <<"TLM_COMPLETED">>
        /\ call[c].resp # "TLM_OK_RESPONSE"
        /\ call[c].ret = "TLM_COMPLETED"
        /\ Len(EgressPorts(c)) < Len(Ascending(0, call[c].rxPortId))

\* ------------------------------------------------------------ C25
\* C25 as claimed: under fair scheduling, with every egress call returning,
\* a caller waiting in lock() for the lock becomes its owner in the end,
\* however many callers go through b_transport() in a loop.
C25_NoStarvation ==
    \A c \in Callers : (ps[c] = "waitFree") ~> (owner = c)

\* ------------------------------------------------------------ C26
\* The call of caller c is over: the thread is back in its own code.
Returned(c) == call[c].pc = "idle"

\* The number of egress invocations of a call: at most dNumPorts - 1 in a
\* flood, at most one in a unicast, and one when the unicast is through.
C26_Invocations ==
    \A c \in Callers :
        /\ call[c].decision = "Flood" => Len(TxOf(c)) <= dNumPorts - 1
        /\ call[c].decision = "Unicast" => Len(TxOf(c)) <= 1
        /\ (call[c].decision = "Unicast" /\ Forwarded(c)) => Len(TxOf(c)) = 1
        /\ call[c].decision = "none" => Len(TxOf(c)) = 0

\* C26 as claimed: with its egress calls returning, every non-blocking
\* call returns, and every blocking call that owns the lock releases it
\* and returns, having made that many egress invocations.
C26_Original ==
    /\ [](C26_Invocations)
    /\ \A c \in Callers : (owner = c) ~> (owner # c /\ Returned(c))
    /\ \A c \in Callers : InNb(c) ~> Returned(c)

\* C26 (amended): that holds of every call but one whose learn fails the
\* assertion, or that is in progress when the learn of another call does:
\* the process is aborted there, no call returns any more, and a blocking
\* call that failed still owns the lock.
C26_AbortedAtLearn ==
    /\ aborted => \E c \in Callers : LearnFailed(c)
    /\ \A c \in Callers : (aborted /\ LearnFailed(c) /\ InB(c)) => owner = c

C26_Terminates ==
    /\ [](C26_Invocations /\ C26_AbortedAtLearn)
    /\ \A c \in Callers : (owner = c) ~> ((owner # c /\ Returned(c)) \/ aborted)
    /\ \A c \in Callers : InNb(c) ~> (Returned(c) \/ aborted)

\* A blocking flood has sent on both other ports, released the lock and
\* yielded, and is about to return, while another caller owns the lock.
C26_Witness ==
    \E c \in Callers :
        /\ BFlood(c) /\ call[c].pc = "b_ret" /\ ps[c] = "running"
        /\ Len(TxOf(c)) = dNumPorts - 1
        /\ owner \in Callers \ {c}
        /\ ~aborted

\* ------------------------------------------------------------ C27
\* C27: the cache starts empty, and an entry that a step adds is the source
\* hash of a call at its learn step bound to the rx port of that call, one
\* of the switch's ports; the destination lookup of either path adds
\* nothing, so a destination hash gets into the cache only as the source
\* hash of a call.  Hence every cached port is a port of the switch, and so
\* is the target of every unicast and the port of every egress invocation.
C27_ValidPorts ==
    /\ \A h \in DOMAIN dMacCache :
           /\ dMacCache[h] \in Ports
           /\ \E m \in Macs : h = hashMacAddr(m)
    /\ \A c \in Callers :
           /\ call[c].decision = "Unicast"
                 => /\ call[c].i \in Ports
                    /\ DstHash(c) \in DOMAIN dMacCache
                    /\ call[c].i = dMacCache[DstHash(c)]
           /\ \A k \in 1 .. Len(TxOf(c)) : TxOf(c)[k][2] \in Ports

C27_FromSource ==
    /\ \A h \in (DOMAIN dMacCache') \ (DOMAIN dMacCache) :
           \E c \in Callers :
               /\ Running(c) /\ AtLearn(c)
               /\ h = SrcHash(c)
               /\ call[c].rxPortId \in Ports
               /\ dMacCache'[h] = call[c].rxPortId
    /\ \A c \in Callers :
           (call[c].pc \in {"b_route", "nb_route"} /\ call'[c].pc # call[c].pc)
               => dMacCache' = dMacCache

C27_Provenance ==
    /\ DOMAIN dMacCache = {}
    /\ [](C27_ValidPorts) /\ [][C27_FromSource]_vars

\* A flood is through and its destination hash is not in the cache, which
\* holds the source hash of the call, new to it, for the rx port.
C27_Witness ==
    \E c \in Callers :
        /\ Forwarded(c) /\ call[c].decision = "Flood"
        /\ DstHash(c) \notin DOMAIN dMacCache
        /\ ~call[c].found
        /\ dMacCache[SrcHash(c)] = call[c].rxPortId
        /\ call[c].rxPortId = dNumPorts - 1

\* ------------------------------------------------------------ C28
\* C28 as claimed: whatever the sequence of connectToServer(),
\* advanceSimulation(), waitForReset(), terminate() and the destruction of
\* the module, no session or port configuration gateway object is deleted
\* more than once, and dSession is not called through before an object was
\* created for it or after that object was deleted.
C28_FreedOnce ==
    /\ \A o \in ObjIds : deletes[o] <= 1
    /\ misuse = {}
====
